---- MODULE Spec2Model ----
(***************************************************************************)
(* Quote aggregate of the quotation service                                *)
(* (backend/app/services/quote_service.py): quote sheets, their items,     *)
(* the totals kept on the sheet and the version ledger.                    *)
(*                                                                         *)
(* One action models one service call from its first query to its commit   *)
(* or rollback.  The session is the one the tests build (autoflush on), so *)
(* a query inside a call sees the call's own pending inserts, updates and  *)
(* deletes.                                                                *)
(*                                                                         *)
(* Money is a Decimal in the code.  Here an amount is an integer number of *)
(* 10^-6 currency units and a rate an integer number of 10^-4, the scales  *)
(* of the Numeric(20,6) and Numeric(5,4) columns.  The catalog and the     *)
(* rates below are chosen so that every product and quotient the code      *)
(* computes is exact at these scales (TypeOK checks it), hence            *)
(* the arithmetic of the model is the exact Decimal arithmetic of the      *)
(* code; rounding by the database column is not part of the model.         *)
(*                                                                         *)
(* Seven specifications share the variables:                               *)
(*   Spec         service calls executed one at a time;                    *)
(*   PricingSpec  _calculate_item_price applied to a range of arguments;   *)
(*   ConcSpec     two requests against one draft quote, each in a session  *)
(*                of its own, interleaved statement by statement;          *)
(*   GenSpec      one call of generate_quote_no, attempt by attempt;       *)
(*   CompSpec     CompetitorService (backend/app/services/                 *)
(*                competitor_service.py) and its data file;                *)
(*   StepSpec     one add_item or update_item call, statement by           *)
(*                statement;                                               *)
(*   ReqSpec      requests in RequestLoggingMiddleware                     *)
(*                (backend/app/core/middleware.py), interleaved.           *)
(***************************************************************************)
EXTENDS Integers, Sequences, FiniteSets, Bags, TLC

\* ---------------------------------------------------------------- bounds
MaxQuotes == 2
MaxItems == 2
MaxVersions == 3
MaxSessions == 2

\* ------------------------------------------------------------- constants
RateDen == 10000
FullRate == 10000
MinRate == 100
TokenUnit == 1000
DefaultThinkingNum == 15
ThinkingDen == 10

None == "None"
Unset == "Unset"
\* None of an Optional[int] field (token counts are >= 0 otherwise)
NoInt == -1
\* a numeric field left out of a patch
UnsetInt == -2

\* ---------------------------------------------------------------- catalog
\* products table: product_code -> category, product_name
LLMCategory == "AI-LLM-text"
StdCategory == "compute-gpu"

Products ==
  [ qwen |-> [category |-> LLMCategory, product_name |-> "qwen"],
    ecs  |-> [category |-> StdCategory, product_name |-> "ecs"],
    orphan |-> [category |-> StdCategory, product_name |-> "orphan"] ]

\* "大模型" in product.category
IsLLMCategory(category) == category = LLMCategory

\* product_prices table: <<product_code, region>> -> price record
HomeRegion == "cn-beijing"
FarRegion == "cn-nowhere"

PriceTable ==
  ( <<"qwen", HomeRegion>> :>
        [unit_price |-> 10000, unit |-> "kToken",
         pricing_variables |-> [input_price |-> 2000, output_price |-> 4000,
                                thinking_multiplier |-> NoInt]] )
  @@
  ( <<"ecs", HomeRegion>> :>
        [unit_price |-> 4000, unit |-> "month",
         pricing_variables |-> [input_price |-> 0, output_price |-> 0,
                                thinking_multiplier |-> NoInt]] )

\* select(Product).where(product_code == code) ... .first()
HasProduct(code) == code \in DOMAIN Products

FindProduct(code) == Products[code]

\* select(ProductPrice).where(product_code == code, region == region) ... .first()
HasPrice(code, region) == <<code, region>> \in DOMAIN PriceTable

FindPrice(code, region) == PriceTable[<<code, region>>]

\* ------------------------------------------------------------ arithmetic
\* a mutant of MulRate: the rate is not applied
MulRateForgotten(amount, rate) == amount

\* Decimal product amount * rate
MulRate(amount, rate) == (amount * rate) \div RateDen

\* truthiness of an Optional[int]
Truthy(n) == n # NoInt /\ n # 0

\* ------------------------------------------------------------- statuses
Draft == "draft"
Confirmed == "confirmed"
Cancelled == "cancelled"
Expired == "expired"
Deleted == "deleted"

Statuses == {Draft, Confirmed, Cancelled, Expired, Deleted}

\* QuoteUpdateRequest.validate_status
ValidateStatus(v) ==
  v = None \/ v \in {Draft, Confirmed, Expired, Cancelled}

\* -------------------------------------------------------------- pricing
\* a mutant of CalculateItemPrice: the thinking multiplier is applied twice
CalculateItemPriceThinkingTwice(product, price, item_data, global_discount_rate) ==
  LET product_type == IF IsLLMCategory(product.category) THEN "llm" ELSE "standard"
      base_price == price.unit_price
      pricing_vars == price.pricing_variables
      base_cost ==
        (pricing_vars.input_price * item_data.input_tokens
           + pricing_vars.output_price * item_data.output_tokens) \div TokenUnit
      thinking_multiplier ==
        IF pricing_vars.thinking_multiplier = NoInt
          THEN DefaultThinkingNum
          ELSE pricing_vars.thinking_multiplier
      thinking_cost ==
        IF item_data.inference_mode = "thinking"
          THEN (base_cost * thinking_multiplier * thinking_multiplier)
                 \div (ThinkingDen * ThinkingDen)
          ELSE base_cost
      original_price ==
        IF product_type = "llm" /\ Truthy(item_data.input_tokens)
                                /\ Truthy(item_data.output_tokens)
          THEN thinking_cost * item_data.quantity * item_data.duration_months
          ELSE base_price * item_data.quantity * item_data.duration_months
  IN [original_price |-> original_price,
      final_price |-> MulRate(original_price, global_discount_rate)]

\* _calculate_item_price; thinking_multiplier is in tenths, NoInt when the
\* catalog entry has none
CalculateItemPrice(product, price, item_data, global_discount_rate) ==
  LET product_type == IF IsLLMCategory(product.category) THEN "llm" ELSE "standard"
      base_price == price.unit_price
      pricing_vars == price.pricing_variables
      base_cost ==
        (pricing_vars.input_price * item_data.input_tokens
           + pricing_vars.output_price * item_data.output_tokens) \div TokenUnit
      thinking_multiplier ==
        IF pricing_vars.thinking_multiplier = NoInt
          THEN DefaultThinkingNum
          ELSE pricing_vars.thinking_multiplier
      thinking_cost ==
        IF item_data.inference_mode = "thinking"
          THEN (base_cost * thinking_multiplier) \div ThinkingDen
          ELSE base_cost
      original_price ==
        IF product_type = "llm" /\ Truthy(item_data.input_tokens)
                                /\ Truthy(item_data.output_tokens)
          THEN thinking_cost * item_data.quantity * item_data.duration_months
          ELSE base_price * item_data.quantity * item_data.duration_months
  IN [original_price |-> original_price,
      final_price |-> MulRate(original_price, global_discount_rate)]

\* ---------------------------------------------------------------- state
VARIABLES
  quotes,      \* quote_sheets: sequence of rows, quote_id = index
  items,       \* quote_items: set of rows
  versions,    \* quote_versions: set of rows
  nextItemId,  \* number of item rows ever inserted + 1 (fresh item_id)
  last,        \* the last service call: operation, quote, outcome
  pricing,     \* one call of _calculate_item_price: its arguments and result
  sessions,    \* concurrent requests: each one's AsyncSession and position
  rowlock,     \* the session holding the row lock of the quote row, or 0
  gen,         \* one call of generate_quote_no: its loop, Redis and result
  competitor,  \* the CompetitorService singleton and its data file
  mutation,    \* one add_item or update_item call, statement by statement
  requests     \* RequestContext._context and the requests in RequestLoggingMiddleware

vars == <<quotes, items, versions, nextItemId, last, pricing, sessions, rowlock,
          gen, competitor, mutation, requests>>

\* the committed database, as one value
DB == [quotes |-> quotes, items |-> items, versions |-> versions,
       nextItemId |-> nextItemId]

QuoteExists(s, q) == q \in 1..Len(s.quotes)

ItemsOf(its, q) == {i \in its : i.quote_id = q}

VersionsOf(vs, q) == {v \in vs : v.quote_id = q}

RECURSIVE SumOriginal(_)
SumOriginal(S) ==
  IF S = {} THEN 0
  ELSE LET i == CHOOSE x \in S : TRUE
       IN i.original_price + SumOriginal(S \ {i})

RECURSIVE SumFinal(_)
SumFinal(S) ==
  IF S = {} THEN 0
  ELSE LET i == CHOOSE x \in S : TRUE
       IN i.final_price + SumFinal(S \ {i})

\* func.max(column) ... .scalar() or 0
MaxOrZero(S) == IF S = {} THEN 0 ELSE CHOOSE m \in S : \A n \in S : n <= m

MaxSortOrder(its, q) == MaxOrZero({i.sort_order : i \in ItemsOf(its, q)})

\* a mutant of MaxVersionNumber: the filter on quote_id is missing
MaxVersionNumberAnyQuote(vs, q) == MaxOrZero({v.version_number : v \in vs})

MaxVersionNumber(vs, q) == MaxOrZero({v.version_number : v \in VersionsOf(vs, q)})

\* a mutant of recalculate_total: the discounted total is left as it was
recalculate_total_original_only(s, q) ==
  [s EXCEPT !.quotes[q].total_original_amount = SumOriginal(ItemsOf(s.items, q))]

\* _recalculate_total: full resum over the quote's current items
recalculate_total(s, q) ==
  [s EXCEPT !.quotes[q].total_original_amount = SumOriginal(ItemsOf(s.items, q)),
            !.quotes[q].total_amount = SumFinal(ItemsOf(s.items, q))]

\* the "items" list of a snapshot; the query has no ORDER BY, so the list is
\* kept as a bag of entries
RECURSIVE SnapshotItems(_)
SnapshotItems(S) ==
  IF S = {} THEN EmptyBag
  ELSE LET i == CHOOSE x \in S : TRUE
       IN SetToBag({[product_code |-> i.product_code,
                     product_name |-> i.product_name,
                     quantity |-> i.quantity,
                     original_price |-> i.original_price,
                     final_price |-> i.final_price]})
          (+) SnapshotItems(S \ {i})

SnapshotData(quote, its) ==
  [quote |-> [quote_no |-> quote.quote_no,
              customer_name |-> quote.customer_name,
              status |-> quote.status,
              total_amount |-> quote.total_amount,
              global_discount_rate |-> quote.global_discount_rate],
   items |-> SnapshotItems(its)]

\* _create_version_snapshot: version_number = max + 1, snapshot of the
\* quote row and its items as the session sees them
create_version_snapshot(s, q, change_type) ==
  [s EXCEPT !.versions = @ \cup
     {[version_id |-> Cardinality(s.versions) + 1,
       quote_id |-> q,
       version_number |-> MaxVersionNumber(s.versions, q) + 1,
       change_type |-> change_type,
       snapshot_data |-> SnapshotData(s.quotes[q], ItemsOf(s.items, q))]}]

\* outcome of a call: the database it leaves and what the caller gets
Commit(s) == [s |-> s, ok |-> TRUE, error |-> None]

\* except-branch of every call: rollback to the database before the call,
\* the exception reaches the caller
Rollback(s, error) == [s |-> s, ok |-> FALSE, error |-> error]

CustomerNames == {"acme", "globex"}

FirstCustomer == "acme"

\* ------------------------------------------------------------ operations
NewQuote(quote_no, customer_name, rate) ==
  [quote_no |-> quote_no,
   customer_name |-> customer_name,
   status |-> Draft,
   global_discount_rate |-> rate,
   global_discount_remark |-> None,
   total_amount |-> 0,
   total_original_amount |-> 0]

create_quote(s, customer_name) ==
  LET q == Len(s.quotes) + 1
      s1 == [s EXCEPT !.quotes = Append(@, NewQuote(q, customer_name, FullRate))]
  IN Commit(create_version_snapshot(s1, q, "create"))

\* item requests (QuoteItemCreateRequest) the model submits
ItemRequests ==
  { [product_code |-> "qwen", region |-> HomeRegion, quantity |-> 1,
     input_tokens |-> 1000, output_tokens |-> 1000,
     inference_mode |-> None, duration_months |-> 1],
    [product_code |-> "qwen", region |-> HomeRegion, quantity |-> 2,
     input_tokens |-> 1000, output_tokens |-> 2000,
     inference_mode |-> "thinking", duration_months |-> 1],
    [product_code |-> "qwen", region |-> HomeRegion, quantity |-> 1,
     input_tokens |-> 0, output_tokens |-> 0,
     inference_mode |-> None, duration_months |-> 1],
    [product_code |-> "ecs", region |-> HomeRegion, quantity |-> 2,
     input_tokens |-> NoInt, output_tokens |-> NoInt,
     inference_mode |-> None, duration_months |-> 2],
    [product_code |-> "ghost", region |-> HomeRegion, quantity |-> 1,
     input_tokens |-> NoInt, output_tokens |-> NoInt,
     inference_mode |-> None, duration_months |-> 1],
    [product_code |-> "ecs", region |-> FarRegion, quantity |-> 1,
     input_tokens |-> NoInt, output_tokens |-> NoInt,
     inference_mode |-> None, duration_months |-> 1] }

NewItem(item_id, q, item_data, product, price_calc, sort_order) ==
  [item_id |-> item_id,
   quote_id |-> q,
   product_code |-> item_data.product_code,
   product_name |-> product.product_name,
   region |-> item_data.region,
   input_tokens |-> item_data.input_tokens,
   output_tokens |-> item_data.output_tokens,
   inference_mode |-> item_data.inference_mode,
   quantity |-> item_data.quantity,
   duration_months |-> item_data.duration_months,
   original_price |-> price_calc.original_price,
   discount_rate |-> FullRate,
   final_price |-> price_calc.final_price,
   sort_order |-> sort_order]

add_item(s, q, item_data) ==
  IF ~QuoteExists(s, q) THEN Rollback(s, "quote_not_found")
  ELSE IF s.quotes[q].status # Draft THEN Rollback(s, "not_draft")
  ELSE IF ~HasProduct(item_data.product_code) THEN Rollback(s, "product_not_found")
  ELSE IF ~HasPrice(item_data.product_code, item_data.region)
    THEN Rollback(s, "price_not_found")
  ELSE
    LET product == FindProduct(item_data.product_code)
        price == FindPrice(item_data.product_code, item_data.region)
        price_result == CalculateItemPrice(product, price, item_data,
                                           s.quotes[q].global_discount_rate)
        max_sort == MaxSortOrder(s.items, q)
        item == NewItem(s.nextItemId, q, item_data, product, price_result, max_sort + 1)
        s1 == [s EXCEPT !.items = @ \cup {item}, !.nextItemId = @ + 1]
        s2 == recalculate_total(s1, q)
    IN Commit(create_version_snapshot(s2, q, "add_item"))

\* patches (QuoteUpdateRequest) the model submits: fields left out are Unset
StatusInputs == {Unset, None, Draft, Confirmed, Cancelled, Expired, Deleted, "submitted"}

QuotePatches ==
  [customer_name : {Unset, "globex"}, status : StatusInputs]

\* for key, value in update_data.items(): setattr(quote, key, value)
ApplyQuotePatch(quote, data) ==
  [quote EXCEPT
     !.customer_name = IF data.customer_name = Unset THEN @ ELSE data.customer_name,
     !.status = IF data.status = Unset THEN @ ELSE data.status]

\* a mutant of RejectsNotDraft: the status check is gone
RejectsNotDraftNever(quote, data) == FALSE

\* if quote.status != "draft" and data.status is None: raise
RejectsNotDraft(quote, data) ==
  quote.status # Draft /\ data.status \in {Unset, None}

\* a mutant of RejectsTransition: the schema's list of statuses is used
RejectsTransitionLax(quote, data) ==
  /\ data.status # Unset
  /\ IF quote.status = Draft
       THEN data.status \notin {Confirmed, Cancelled, Expired}
       ELSE TRUE

\* a mutant of RejectsTransition: only a draft's target is checked
RejectsTransitionDraftOnly(quote, data) ==
  /\ data.status # Unset
  /\ IF quote.status = Draft
       THEN data.status \notin {Confirmed, Cancelled}
       ELSE FALSE

\* if "status" in update_data: a draft may become confirmed or cancelled,
\* any other status allows no transition
RejectsTransition(quote, data) ==
  /\ data.status # Unset
  /\ IF quote.status = Draft
       THEN data.status \notin {Confirmed, Cancelled}
       ELSE TRUE

update_quote(s, q, data) ==
  IF ~ValidateStatus(IF data.status = Unset THEN None ELSE data.status)
    THEN Rollback(s, "validation")
  ELSE IF ~QuoteExists(s, q) THEN Rollback(s, "quote_not_found")
  ELSE IF RejectsNotDraft(s.quotes[q], data) THEN Rollback(s, "not_draft")
  ELSE IF RejectsTransition(s.quotes[q], data) THEN Rollback(s, "bad_transition")
  ELSE
    LET s1 == [s EXCEPT !.quotes[q] = ApplyQuotePatch(@, data)]
    IN Commit(create_version_snapshot(s1, q, "update"))

\* a mutant of delete_quote: the quote's ledger is removed with it
delete_quote_purging(s, q) ==
  IF ~QuoteExists(s, q) THEN Rollback(s, "quote_not_found")
  ELSE Commit([s EXCEPT !.quotes[q].status = Deleted,
                        !.versions = @ \ VersionsOf(@, q)])

delete_quote(s, q) ==
  IF ~QuoteExists(s, q) THEN Rollback(s, "quote_not_found")
  ELSE Commit([s EXCEPT !.quotes[q].status = Deleted])

\* patches (QuoteItemUpdateRequest) the model submits
ItemPatches ==
  { [quantity |-> 2, input_tokens |-> UnsetInt, output_tokens |-> UnsetInt,
     inference_mode |-> Unset, discount_rate |-> UnsetInt],
    [quantity |-> UnsetInt, input_tokens |-> 0, output_tokens |-> UnsetInt,
     inference_mode |-> Unset, discount_rate |-> UnsetInt],
    [quantity |-> UnsetInt, input_tokens |-> UnsetInt, output_tokens |-> UnsetInt,
     inference_mode |-> "turbo", discount_rate |-> UnsetInt],
    [quantity |-> UnsetInt, input_tokens |-> UnsetInt, output_tokens |-> UnsetInt,
     inference_mode |-> Unset, discount_rate |-> 5000],
    [quantity |-> UnsetInt, input_tokens |-> UnsetInt, output_tokens |-> UnsetInt,
     inference_mode |-> Unset, discount_rate |-> UnsetInt] }

\* for key, value in update_data.items(): setattr(item, key, value)
ApplyItemPatch(item, data) ==
  [item EXCEPT
     !.quantity = IF data.quantity = UnsetInt THEN @ ELSE data.quantity,
     !.input_tokens = IF data.input_tokens = UnsetInt THEN @ ELSE data.input_tokens,
     !.output_tokens = IF data.output_tokens = UnsetInt THEN @ ELSE data.output_tokens,
     !.inference_mode = IF data.inference_mode = Unset THEN @ ELSE data.inference_mode,
     !.discount_rate = IF data.discount_rate = UnsetInt THEN @ ELSE data.discount_rate]

\* price_fields & set(update_data.keys()); duration_months is no field of the patch
TouchesPriceFields(data) ==
  \/ data.quantity # UnsetInt
  \/ data.input_tokens # UnsetInt
  \/ data.output_tokens # UnsetInt
  \/ data.inference_mode # Unset

\* QuoteItemCreateRequest.validate_inference_mode
ValidateInferenceMode(v) == v \in {None, "thinking", "non_thinking"}

FindItem(s, q, item_id) == {i \in s.items : i.item_id = item_id /\ i.quote_id = q}

\* a mutant of update_item: the patch is written and the prices are kept
update_item_stale_price(s, q, item_id, item_data) ==
  IF ~QuoteExists(s, q) THEN Rollback(s, "quote_not_found")
  ELSE IF s.quotes[q].status # Draft THEN Rollback(s, "not_draft")
  ELSE IF FindItem(s, q, item_id) = {} THEN Rollback(s, "item_not_found")
  ELSE
    LET item == CHOOSE i \in FindItem(s, q, item_id) : TRUE
        item1 == ApplyItemPatch(item, item_data)
        reprice == /\ TouchesPriceFields(item_data)
                   /\ HasPrice(item1.product_code, item1.region)
                   /\ HasProduct(item1.product_code)
    IN IF reprice /\ ~ValidateInferenceMode(item1.inference_mode)
         THEN Rollback(s, "validation")
       ELSE
         LET s1 == [s EXCEPT !.items = (@ \ {item}) \cup {item1}]
             s2 == recalculate_total(s1, q)
         IN Commit(create_version_snapshot(s2, q, "update_item"))

\* a mutant of update_item: a patch refused at repricing stays written
update_item_partial(s, q, item_id, item_data) ==
  IF ~QuoteExists(s, q) THEN Rollback(s, "quote_not_found")
  ELSE IF s.quotes[q].status # Draft THEN Rollback(s, "not_draft")
  ELSE IF FindItem(s, q, item_id) = {} THEN Rollback(s, "item_not_found")
  ELSE
    LET item == CHOOSE i \in FindItem(s, q, item_id) : TRUE
        item1 == ApplyItemPatch(item, item_data)
        reprice == /\ TouchesPriceFields(item_data)
                   /\ HasPrice(item1.product_code, item1.region)
                   /\ HasProduct(item1.product_code)
    IN IF reprice /\ ~ValidateInferenceMode(item1.inference_mode)
         THEN Rollback([s EXCEPT !.items = (@ \ {item}) \cup {item1}], "validation")
       ELSE
         LET price_result ==
               CalculateItemPrice(FindProduct(item1.product_code),
                                  FindPrice(item1.product_code, item1.region),
                                  item1, s.quotes[q].global_discount_rate)
             item2 == IF reprice
                        THEN [item1 EXCEPT !.original_price = price_result.original_price,
                                           !.final_price = price_result.final_price]
                        ELSE item1
             s1 == [s EXCEPT !.items = (@ \ {item}) \cup {item2}]
             s2 == recalculate_total(s1, q)
         IN Commit(create_version_snapshot(s2, q, "update_item"))

update_item(s, q, item_id, item_data) ==
  IF ~QuoteExists(s, q) THEN Rollback(s, "quote_not_found")
  ELSE IF s.quotes[q].status # Draft THEN Rollback(s, "not_draft")
  ELSE IF FindItem(s, q, item_id) = {} THEN Rollback(s, "item_not_found")
  ELSE
    LET item == CHOOSE i \in FindItem(s, q, item_id) : TRUE
        item1 == ApplyItemPatch(item, item_data)
        reprice == /\ TouchesPriceFields(item_data)
                   /\ HasPrice(item1.product_code, item1.region)
                   /\ HasProduct(item1.product_code)
    IN IF reprice /\ ~ValidateInferenceMode(item1.inference_mode)
         THEN Rollback(s, "validation")
       ELSE
         LET price_result ==
               CalculateItemPrice(FindProduct(item1.product_code),
                                  FindPrice(item1.product_code, item1.region),
                                  item1, s.quotes[q].global_discount_rate)
             item2 == IF reprice
                        THEN [item1 EXCEPT !.original_price = price_result.original_price,
                                           !.final_price = price_result.final_price]
                        ELSE item1
             s1 == [s EXCEPT !.items = (@ \ {item}) \cup {item2}]
             s2 == recalculate_total(s1, q)
         IN Commit(create_version_snapshot(s2, q, "update_item"))

\* a mutant of delete_item: the snapshot is taken before the item is removed
delete_item_snapshot_first(s, q, item_id) ==
  IF ~QuoteExists(s, q) THEN Rollback(s, "quote_not_found")
  ELSE IF s.quotes[q].status # Draft THEN Rollback(s, "not_draft")
  ELSE IF FindItem(s, q, item_id) = {} THEN Rollback(s, "item_not_found")
  ELSE
    LET s1 == create_version_snapshot(s, q, "delete_item")
        s2 == [s1 EXCEPT !.items = @ \ FindItem(s, q, item_id)]
    IN Commit(recalculate_total(s2, q))

\* a mutant of delete_item: the status check is missing
delete_item_any_status(s, q, item_id) ==
  IF ~QuoteExists(s, q) THEN Rollback(s, "quote_not_found")
  ELSE IF FindItem(s, q, item_id) = {} THEN Rollback(s, "item_not_found")
  ELSE
    LET s1 == [s EXCEPT !.items = @ \ FindItem(s, q, item_id)]
        s2 == recalculate_total(s1, q)
    IN Commit(create_version_snapshot(s2, q, "delete_item"))

\* a mutant of delete_item: the items behind the removed one move up
delete_item_renumbering(s, q, item_id) ==
  IF ~QuoteExists(s, q) THEN Rollback(s, "quote_not_found")
  ELSE IF s.quotes[q].status # Draft THEN Rollback(s, "not_draft")
  ELSE IF FindItem(s, q, item_id) = {} THEN Rollback(s, "item_not_found")
  ELSE
    LET item == CHOOSE i \in FindItem(s, q, item_id) : TRUE
        s1 == [s EXCEPT !.items =
                 {IF i.quote_id = q /\ i.sort_order > item.sort_order
                    THEN [i EXCEPT !.sort_order = @ - 1]
                    ELSE i : i \in @ \ {item}}]
        s2 == recalculate_total(s1, q)
    IN Commit(create_version_snapshot(s2, q, "delete_item"))

delete_item(s, q, item_id) ==
  IF ~QuoteExists(s, q) THEN Rollback(s, "quote_not_found")
  ELSE IF s.quotes[q].status # Draft THEN Rollback(s, "not_draft")
  ELSE IF FindItem(s, q, item_id) = {} THEN Rollback(s, "item_not_found")
  ELSE
    LET s1 == [s EXCEPT !.items = @ \ FindItem(s, q, item_id)]
        s2 == recalculate_total(s1, q)
    IN Commit(create_version_snapshot(s2, q, "delete_item"))

\* batches (List[QuoteItemCreateRequest]) the model submits
BatchInputs ==
  LET llm == [product_code |-> "qwen", region |-> HomeRegion, quantity |-> 1,
              input_tokens |-> 1000, output_tokens |-> 1000,
              inference_mode |-> None, duration_months |-> 1]
      std == [product_code |-> "ecs", region |-> HomeRegion, quantity |-> 2,
              input_tokens |-> NoInt, output_tokens |-> NoInt,
              inference_mode |-> None, duration_months |-> 2]
      ghost == [product_code |-> "ghost", region |-> HomeRegion, quantity |-> 1,
                input_tokens |-> NoInt, output_tokens |-> NoInt,
                inference_mode |-> None, duration_months |-> 1]
      far == [product_code |-> "ecs", region |-> FarRegion, quantity |-> 1,
              input_tokens |-> NoInt, output_tokens |-> NoInt,
              inference_mode |-> None, duration_months |-> 1]
  IN { <<ghost, llm>>, <<llm, far, std>>, <<far, ghost>> }

\* a mutant of BatchLoop: the first failing entry ends the loop
RECURSIVE BatchLoopAbortOnFailure(_, _, _, _)
BatchLoopAbortOnFailure(acc, q, items_data, k) ==
  IF k > Len(items_data) THEN acc
  ELSE
    LET item_data == items_data[k]
    IN IF ~HasProduct(item_data.product_code)
            \/ ~HasPrice(item_data.product_code, item_data.region)
         THEN [acc EXCEPT !.failed_items =
                 Append(@, [product_code |-> item_data.product_code,
                            error |-> "aborted"])]
       ELSE
         LET product == FindProduct(item_data.product_code)
             price == FindPrice(item_data.product_code, item_data.region)
             price_calc == CalculateItemPrice(product, price, item_data,
                                              acc.s.quotes[q].global_discount_rate)
             item == NewItem(acc.s.nextItemId, q, item_data, product, price_calc,
                             acc.current_sort + 1)
         IN BatchLoopAbortOnFailure(
              [acc EXCEPT !.s.items = @ \cup {item},
                          !.s.nextItemId = @ + 1,
                          !.current_sort = @ + 1,
                          !.success_items = Append(@, item.item_id)],
              q, items_data, k + 1)

\* the for-loop of add_items_batch from entry k on: acc carries the session
\* (acc.s), current_sort and the two result lists
RECURSIVE BatchLoop(_, _, _, _)
BatchLoop(acc, q, items_data, k) ==
  IF k > Len(items_data) THEN acc
  ELSE
    LET item_data == items_data[k]
    IN IF ~HasProduct(item_data.product_code)
         THEN BatchLoop([acc EXCEPT !.failed_items =
                           Append(@, [product_code |-> item_data.product_code,
                                      error |-> "product_not_found"])],
                        q, items_data, k + 1)
       ELSE IF ~HasPrice(item_data.product_code, item_data.region)
         THEN BatchLoop([acc EXCEPT !.failed_items =
                           Append(@, [product_code |-> item_data.product_code,
                                      error |-> "price_not_found"])],
                        q, items_data, k + 1)
       ELSE
         LET product == FindProduct(item_data.product_code)
             price == FindPrice(item_data.product_code, item_data.region)
             price_calc == CalculateItemPrice(product, price, item_data,
                                              acc.s.quotes[q].global_discount_rate)
             item == NewItem(acc.s.nextItemId, q, item_data, product, price_calc,
                             acc.current_sort + 1)
         IN BatchLoop([acc EXCEPT !.s.items = @ \cup {item},
                                  !.s.nextItemId = @ + 1,
                                  !.current_sort = @ + 1,
                                  !.success_items = Append(@, item.item_id)],
                      q, items_data, k + 1)

\* a mutant of add_items_batch: the snapshot is taken before the loop
add_items_batch_snapshot_first(s, q, items_data) ==
  IF ~QuoteExists(s, q)
    THEN Rollback(s, "quote_not_found") @@ [success_count |-> 0, failed_count |-> 0]
  ELSE IF s.quotes[q].status # Draft
    THEN Rollback(s, "not_draft") @@ [success_count |-> 0, failed_count |-> 0]
  ELSE
    LET s0 == create_version_snapshot(s, q, "add_item")
        acc == BatchLoop([s |-> s0, current_sort |-> MaxSortOrder(s.items, q),
                          success_items |-> <<>>, failed_items |-> <<>>],
                         q, items_data, 1)
    IN Commit(recalculate_total(acc.s, q)) @@
       [success_count |-> Len(acc.success_items),
        failed_count |-> Len(acc.failed_items)]

add_items_batch(s, q, items_data) ==
  IF ~QuoteExists(s, q)
    THEN Rollback(s, "quote_not_found") @@ [success_count |-> 0, failed_count |-> 0]
  ELSE IF s.quotes[q].status # Draft
    THEN Rollback(s, "not_draft") @@ [success_count |-> 0, failed_count |-> 0]
  ELSE
    LET acc == BatchLoop([s |-> s, current_sort |-> MaxSortOrder(s.items, q),
                          success_items |-> <<>>, failed_items |-> <<>>],
                         q, items_data, 1)
        s2 == recalculate_total(acc.s, q)
    IN Commit(create_version_snapshot(s2, q, "add_item")) @@
       [success_count |-> Len(acc.success_items),
        failed_count |-> Len(acc.failed_items)]

\* get_quote_detail: items ... .order_by(QuoteItem.sort_order)
RECURSIVE OrderBySortOrder(_)
OrderBySortOrder(S) ==
  IF S = {} THEN <<>>
  ELSE LET i == CHOOSE x \in S : \A y \in S : x.sort_order <= y.sort_order
       IN <<i>> \o OrderBySortOrder(S \ {i})

\* new names (new_customer_name) the model submits
CloneNames == {None}

\* a mutant of clone_quote: the copy starts at the full rate
clone_quote_full_rate(s, q, new_customer_name) ==
  IF ~QuoteExists(s, q) THEN Rollback(s, "quote_not_found")
  ELSE
    LET source == s.quotes[q]
        detail_items == OrderBySortOrder(ItemsOf(s.items, q))
        new_id == Len(s.quotes) + 1
        new_quote == NewQuote(new_id,
                              IF new_customer_name # None THEN new_customer_name
                                                          ELSE source.customer_name,
                              FullRate)
        new_items == {[detail_items[idx] EXCEPT !.item_id = s.nextItemId + idx - 1,
                                                !.quote_id = new_id,
                                                !.sort_order = idx]
                        : idx \in 1..Len(detail_items)}
        s1 == [s EXCEPT !.quotes = Append(@, new_quote),
                        !.items = @ \cup new_items,
                        !.nextItemId = @ + Len(detail_items)]
        s2 == recalculate_total(s1, new_id)
    IN Commit(create_version_snapshot(s2, new_id, "clone"))

clone_quote(s, q, new_customer_name) ==
  IF ~QuoteExists(s, q) THEN Rollback(s, "quote_not_found")
  ELSE
    LET source == s.quotes[q]
        detail_items == OrderBySortOrder(ItemsOf(s.items, q))
        new_id == Len(s.quotes) + 1
        new_quote == NewQuote(new_id,
                              IF new_customer_name # None THEN new_customer_name
                                                          ELSE source.customer_name,
                              source.global_discount_rate)
        new_items == {[detail_items[idx] EXCEPT !.item_id = s.nextItemId + idx - 1,
                                                !.quote_id = new_id,
                                                !.sort_order = idx]
                        : idx \in 1..Len(detail_items)}
        s1 == [s EXCEPT !.quotes = Append(@, new_quote),
                        !.items = @ \cup new_items,
                        !.nextItemId = @ + Len(detail_items)]
        s2 == recalculate_total(s1, new_id)
    IN Commit(create_version_snapshot(s2, new_id, "clone"))

\* discount requests (QuoteDiscountRequest) the model submits
DiscountInputs ==
  { [discount_rate |-> 50, remark |-> None],
    [discount_rate |-> 5000, remark |-> "promo"],
    [discount_rate |-> FullRate, remark |-> None],
    [discount_rate |-> 15000, remark |-> None] }

\* a mutant of ValidateRate: only the upper limit is checked
ValidateRateUpperOnly(rate) == rate <= FullRate

\* QuoteDiscountRequest: discount_rate ge=0.01, le=1.0
ValidateRate(rate) == MinRate <= rate /\ rate <= FullRate

\* a mutant of Rediscount: the rate is applied to the current final price
RediscountCompounding(its, q, discount_rate) ==
  {IF i.quote_id = q
     THEN [i EXCEPT !.final_price = MulRate(i.final_price, discount_rate)]
     ELSE i : i \in its}

\* a mutant of Rediscount: the discounted price is written to both prices
RediscountBothPrices(its, q, discount_rate) ==
  {IF i.quote_id = q
     THEN [i EXCEPT !.final_price = MulRate(i.original_price, discount_rate),
                    !.original_price = MulRate(i.original_price, discount_rate)]
     ELSE i : i \in its}

\* for item in items: item.final_price = item.original_price * discount_rate
Rediscount(its, q, discount_rate) ==
  {IF i.quote_id = q
     THEN [i EXCEPT !.final_price = MulRate(i.original_price, discount_rate)]
     ELSE i : i \in its}

\* a mutant of apply_global_discount: the status check is missing
apply_global_discount_any_status(s, q, discount_rate, remark) ==
  IF ~ValidateRate(discount_rate) THEN Rollback(s, "validation")
  ELSE IF ~QuoteExists(s, q) THEN Rollback(s, "quote_not_found")
  ELSE
    LET s0 == [s EXCEPT !.quotes[q].global_discount_rate = discount_rate,
                        !.quotes[q].global_discount_remark =
                            IF remark # None THEN remark ELSE @]
        s1 == [s0 EXCEPT !.items = Rediscount(@, q, discount_rate)]
        s2 == recalculate_total(s1, q)
    IN Commit(create_version_snapshot(s2, q, "apply_discount"))

apply_global_discount(s, q, discount_rate, remark) ==
  IF ~ValidateRate(discount_rate) THEN Rollback(s, "validation")
  ELSE IF ~QuoteExists(s, q) THEN Rollback(s, "quote_not_found")
  ELSE IF s.quotes[q].status # Draft THEN Rollback(s, "not_draft")
  ELSE
    LET s0 == [s EXCEPT !.quotes[q].global_discount_rate = discount_rate,
                        !.quotes[q].global_discount_remark =
                            IF remark # None THEN remark ELSE @]
        s1 == [s0 EXCEPT !.items = Rediscount(@, q, discount_rate)]
        s2 == recalculate_total(s1, q)
    IN Commit(create_version_snapshot(s2, q, "apply_discount"))

\* the time-based expiry of a draft quote, done outside the service
expire_quote(s, q) ==
  [s EXCEPT !.quotes[q].status = Expired]

\* ---------------------------------------------------------------- actions
QuoteIds == 1..MaxQuotes
ItemIds == 1..MaxItems

\* the model's bounds on the three tables
WithinBounds(s) ==
  /\ Len(s.quotes) <= MaxQuotes
  /\ s.nextItemId <= MaxItems + 1
  /\ Cardinality(s.versions) <= MaxVersions

\* one service call: the database becomes the one the call leaves, and the
\* caller sees its outcome
Call(op, q, out) ==
  /\ WithinBounds(out.s)
  /\ quotes' = out.s.quotes
  /\ items' = out.s.items
  /\ versions' = out.s.versions
  /\ nextItemId' = out.s.nextItemId
  /\ last' = [op |-> op, quote_id |-> q, ok |-> out.ok, error |-> out.error]
  /\ UNCHANGED <<pricing, gen, sessions, rowlock, competitor, mutation,
                 requests>>

\* no call of _calculate_item_price on its own
NoPricing == [priced |-> FALSE]

\* no concurrent request
NoSessions == <<>>

\* no call of generate_quote_no on its own
NoGeneration == [pc |-> "none"]

\* no CompetitorService in use
NoCompetitor == [op |-> "none"]

\* no call followed statement by statement
NoMutation == [pc |-> "none"]

\* no request in the middleware
NoRequests == [context |-> <<>>]

Init ==
  /\ quotes = <<>>
  /\ items = {}
  /\ versions = {}
  /\ nextItemId = 1
  /\ last = [op |-> "init", quote_id |-> 0, ok |-> TRUE, error |-> None]
  /\ pricing = NoPricing
  /\ sessions = NoSessions
  /\ rowlock = 0
  /\ requests = NoRequests
  /\ mutation = NoMutation
  /\ competitor = NoCompetitor
  /\ gen = NoGeneration

CreateQuote == Call("create_quote", Len(quotes) + 1, create_quote(DB, FirstCustomer))

UpdateQuote == \E q \in QuoteIds, d \in QuotePatches :
  Call("update_quote", q, update_quote(DB, q, d))

DeleteQuote == \E q \in QuoteIds : Call("delete_quote", q, delete_quote(DB, q))

AddItem == \E q \in QuoteIds, r \in ItemRequests :
  Call("add_item", q, add_item(DB, q, r))

UpdateItem == \E q \in QuoteIds, i \in ItemIds, d \in ItemPatches :
  Call("update_item", q, update_item(DB, q, i, d))

DeleteItem == \E q \in QuoteIds, i \in ItemIds :
  Call("delete_item", q, delete_item(DB, q, i))

AddItemsBatch == \E q \in QuoteIds, b \in BatchInputs :
  Call("add_items_batch", q, add_items_batch(DB, q, b))

CloneQuote == \E q \in QuoteIds, n \in CloneNames :
  Call("clone_quote", q, clone_quote(DB, q, n))

ApplyGlobalDiscount == \E q \in QuoteIds, d \in DiscountInputs :
  Call("apply_global_discount", q,
       apply_global_discount(DB, q, d.discount_rate, d.remark))

ExpireQuote == \E q \in QuoteIds :
  /\ QuoteExists(DB, q)
  /\ quotes[q].status = Draft
  /\ quotes' = expire_quote(DB, q).quotes
  /\ last' = [op |-> "expire", quote_id |-> q, ok |-> TRUE, error |-> None]
  /\ UNCHANGED <<items, versions, nextItemId, pricing, gen, sessions, rowlock,
                 competitor, mutation, requests>>

Next ==
  \/ CreateQuote
  \/ UpdateQuote
  \/ DeleteQuote
  \/ AddItem
  \/ UpdateItem
  \/ DeleteItem
  \/ AddItemsBatch
  \/ CloneQuote
  \/ ApplyGlobalDiscount
  \/ ExpireQuote

Spec == Init /\ [][Next]_vars

\* ------------------------------------------- _calculate_item_price alone
\* catalog rows, requests and rates the pricing function is applied to
PricedProducts == {Products["qwen"], Products["ecs"]}

PriceRecords ==
  [unit_price : {4000, 10000},
   pricing_variables : [input_price : {0, 2000},
                        output_price : {4000},
                        thinking_multiplier : {NoInt, 20}]]

PricedRequests ==
  [quantity : {1, 3},
   duration_months : {1, 2},
   input_tokens : {NoInt, 0, 1000},
   output_tokens : {NoInt, 0, 2000},
   inference_mode : {None, "thinking", "non_thinking"}]

PricedRates == {MinRate, 5000, FullRate}

PricingInit ==
  /\ quotes = <<>>
  /\ items = {}
  /\ versions = {}
  /\ nextItemId = 1
  /\ last = [op |-> "init", quote_id |-> 0, ok |-> TRUE, error |-> None]
  /\ \E product \in PricedProducts, price \in PriceRecords,
        item_data \in PricedRequests, rate \in PricedRates :
       pricing = [priced |-> FALSE, product |-> product, price |-> price,
                  item_data |-> item_data, global_discount_rate |-> rate,
                  result |-> [original_price |-> 0, final_price |-> 0]]
  /\ sessions = NoSessions
  /\ rowlock = 0
  /\ requests = NoRequests
  /\ mutation = NoMutation
  /\ competitor = NoCompetitor
  /\ gen = NoGeneration

PriceItem ==
  /\ ~pricing.priced
  /\ pricing' = [pricing EXCEPT
                   !.priced = TRUE,
                   !.result = CalculateItemPrice(pricing.product, pricing.price,
                                                 pricing.item_data,
                                                 pricing.global_discount_rate)]
  /\ UNCHANGED <<quotes, items, versions, nextItemId, last, sessions, rowlock,
                 gen, competitor, mutation, requests>>

PricingNext == PriceItem

PricingSpec == PricingInit /\ [][PricingNext]_vars

\* ------------------------------------------------ concurrent transactions
\* Each request runs its service call in an AsyncSession of its own, one
\* statement after the other.  The engine is created without an isolation
\* level, so a transaction runs at PostgreSQL's default, READ COMMITTED: a
\* statement sees the rows committed when it starts and the transaction's own
\* writes; an UPDATE of a row that another open transaction has updated waits
\* for that transaction to end and then writes its columns over the committed
\* row.  The session's identity map keeps an object as it was first loaded: a
\* later SELECT does not refresh it.
Sessions == 1..MaxSessions

\* the draft quote the concurrent requests address
ConcQuote == 1

ConcLLM ==
  [product_code |-> "qwen", region |-> HomeRegion, quantity |-> 1,
   input_tokens |-> 1000, output_tokens |-> 1000,
   inference_mode |-> None, duration_months |-> 1]

ConcStd ==
  [product_code |-> "ecs", region |-> HomeRegion, quantity |-> 2,
   input_tokens |-> NoInt, output_tokens |-> NoInt,
   inference_mode |-> None, duration_months |-> 2]

\* the requests that arrive concurrently
ConcCalls ==
  { [op |-> "add_item", item_data |-> ConcLLM,
     discount_rate |-> FullRate, remark |-> None],
    [op |-> "add_item", item_data |-> ConcStd,
     discount_rate |-> FullRate, remark |-> None],
    [op |-> "apply_global_discount", item_data |-> ConcLLM,
     discount_rate |-> 5000, remark |-> "promo"],
    [op |-> "apply_global_discount", item_data |-> ConcLLM,
     discount_rate |-> FullRate, remark |-> None] }

\* a session before its request: nothing loaded, nothing pending
IdleSession ==
  [pc |-> "idle",
   call |-> [op |-> "none", item_data |-> ConcLLM,
             discount_rate |-> FullRate, remark |-> None],
   quote |-> NewQuote(0, FirstCustomer, FullRate),
   quote_loaded |-> NewQuote(0, FirstCustomer, FullRate),
   loaded |-> {},
   inserted |-> {},
   updated |-> {},
   version |-> {}]

\* select(QuoteItem).where(quote_id == q) in session s: the rows committed now
\* and the session's own rows; a row the identity map holds keeps the values
\* the session has for it
SelectItems(s, q) ==
  s.loaded \cup
    {i \in ItemsOf(items, q) : i.item_id \notin {j.item_id : j \in s.loaded}}

\* the session has changed a column of the quote row
QuoteDirty(s) == s.quote # s.quote_loaded

\* autoflush: the UPDATE of the quote row takes the row lock, and waits while
\* another transaction holds it
FlushQuote(t, s) ==
  /\ QuoteDirty(s) => rowlock \in {0, t}
  /\ rowlock' = IF QuoteDirty(s) THEN t ELSE rowlock

\* UPDATE quote_sheets SET <changed columns>: the other columns keep the
\* committed values
WriteQuoteColumns(row, loaded, local) ==
  [row EXCEPT
     !.global_discount_rate =
        IF local.global_discount_rate # loaded.global_discount_rate
          THEN local.global_discount_rate ELSE @,
     !.global_discount_remark =
        IF local.global_discount_remark # loaded.global_discount_remark
          THEN local.global_discount_remark ELSE @,
     !.total_amount =
        IF local.total_amount # loaded.total_amount THEN local.total_amount ELSE @,
     !.total_original_amount =
        IF local.total_original_amount # loaded.total_original_amount
          THEN local.total_original_amount ELSE @]

ConcInit ==
  /\ \E with_item \in BOOLEAN :
       LET empty == [quotes |-> <<>>, items |-> {}, versions |-> {}, nextItemId |-> 1]
           created == create_quote(empty, FirstCustomer).s
           s == IF with_item THEN add_item(created, ConcQuote, ConcLLM).s ELSE created
       IN /\ quotes = s.quotes
          /\ items = s.items
          /\ versions = s.versions
          /\ nextItemId = s.nextItemId
  /\ last = [op |-> "init", quote_id |-> 0, ok |-> TRUE, error |-> None]
  /\ pricing = NoPricing
  /\ sessions = [t \in Sessions |-> IdleSession]
  /\ rowlock = 0
  /\ requests = NoRequests
  /\ mutation = NoMutation
  /\ competitor = NoCompetitor
  /\ gen = NoGeneration

\* the request arrives: select(QuoteSheet), status check
TxBegin(t, c) ==
  /\ sessions[t].pc = "idle"
  /\ quotes[ConcQuote].status = Draft
  /\ sessions' = [sessions EXCEPT ![t] =
                    [@ EXCEPT !.pc = "begun",
                              !.call = c,
                              !.quote = quotes[ConcQuote],
                              !.quote_loaded = quotes[ConcQuote]]]
  /\ UNCHANGED <<quotes, items, versions, nextItemId, last, pricing, gen,
                 rowlock, competitor, mutation, requests>>

\* add_item up to db.flush(): price with the rate the session loaded,
\* max(sort_order) over the committed rows, INSERT of the item
TxAddItem(t) ==
  LET s == sessions[t]
      item_data == s.call.item_data
      product == FindProduct(item_data.product_code)
      price == FindPrice(item_data.product_code, item_data.region)
      price_result == CalculateItemPrice(product, price, item_data,
                                         s.quote.global_discount_rate)
      max_sort == MaxSortOrder(items \cup s.loaded, ConcQuote)
      item == NewItem(nextItemId, ConcQuote, item_data, product, price_result,
                      max_sort + 1)
  IN /\ s.pc = "begun"
     /\ s.call.op = "add_item"
     /\ sessions' = [sessions EXCEPT ![t] =
                       [@ EXCEPT !.pc = "flushed",
                                 !.loaded = @ \cup {item},
                                 !.inserted = @ \cup {item.item_id}]]
     /\ nextItemId' = nextItemId + 1
     /\ UNCHANGED <<quotes, items, versions, last, pricing, gen, rowlock,
                    competitor, mutation, requests>>

\* apply_global_discount up to the loop over the items: the rate is set, the
\* SELECT of the items flushes it, every item loaded is repriced
TxApplyDiscount(t) ==
  LET s == sessions[t]
      s1 == [s EXCEPT !.quote.global_discount_rate = s.call.discount_rate,
                      !.quote.global_discount_remark =
                          IF s.call.remark # None THEN s.call.remark ELSE @]
      rows == SelectItems(s1, ConcQuote)
      repriced == Rediscount(rows, ConcQuote, s.call.discount_rate)
  IN /\ s.pc = "begun"
     /\ s.call.op = "apply_global_discount"
     /\ FlushQuote(t, s1)
     /\ sessions' = [sessions EXCEPT ![t] =
                       [s1 EXCEPT !.pc = "flushed",
                                  !.loaded = repriced,
                                  !.updated = {i.item_id : i \in rows \ repriced}]]
     /\ UNCHANGED <<quotes, items, versions, nextItemId, last, pricing, gen,
                    competitor, mutation, requests>>

\* _recalculate_total in the session: sums over the rows its SELECT returns
TxRecalculateTotal(t) ==
  LET s == sessions[t]
      rows == SelectItems(s, ConcQuote)
  IN /\ s.pc = "flushed"
     /\ sessions' = [sessions EXCEPT ![t] =
                       [@ EXCEPT !.pc = "recalculated",
                                 !.loaded = rows,
                                 !.quote.total_original_amount = SumOriginal(rows),
                                 !.quote.total_amount = SumFinal(rows)]]
     /\ UNCHANGED <<quotes, items, versions, nextItemId, last, pricing, gen,
                    rowlock, competitor, mutation, requests>>

\* _create_version_snapshot in the session: the SELECT of max(version_number)
\* flushes the totals, then the quote and its items are read and the entry
\* is added to the session
TxCreateVersionSnapshot(t) ==
  LET s == sessions[t]
      max_version == MaxVersionNumber(versions, ConcQuote)
      rows == SelectItems(s, ConcQuote)
      version == [version_id |-> 0,
                  quote_id |-> ConcQuote,
                  version_number |-> max_version + 1,
                  change_type |-> IF s.call.op = "add_item" THEN "add_item"
                                                           ELSE "apply_discount",
                  snapshot_data |-> SnapshotData(s.quote, rows)]
  IN /\ s.pc = "recalculated"
     /\ FlushQuote(t, s)
     /\ sessions' = [sessions EXCEPT ![t] =
                       [@ EXCEPT !.pc = "snapshotted",
                                 !.loaded = rows,
                                 !.version = {version}]]
     /\ UNCHANGED <<quotes, items, versions, nextItemId, last, pricing, gen,
                    competitor, mutation, requests>>

\* db.commit(): the session's INSERTs and UPDATEs become the committed rows
TxCommit(t) ==
  LET s == sessions[t]
      mine(i) == CHOOSE j \in s.loaded : j.item_id = i.item_id
  IN /\ s.pc = "snapshotted"
     /\ items' = {IF i.item_id \in s.updated
                    THEN [i EXCEPT !.final_price = mine(i).final_price]
                    ELSE i : i \in items}
                   \cup {i \in s.loaded : i.item_id \in s.inserted}
     /\ quotes' = [quotes EXCEPT ![ConcQuote] =
                     WriteQuoteColumns(@, s.quote_loaded, s.quote)]
     /\ versions' = versions \cup
                      {[v EXCEPT !.version_id = Cardinality(versions) + 1] :
                         v \in s.version}
     /\ rowlock' = IF rowlock = t THEN 0 ELSE rowlock
     /\ sessions' = [sessions EXCEPT ![t].pc = "committed"]
     /\ UNCHANGED <<nextItemId, last, pricing, gen, competitor, mutation,
                    requests>>

ConcNext ==
  \/ \E t \in Sessions, c \in ConcCalls : TxBegin(t, c)
  \/ \E t \in Sessions : TxAddItem(t)
  \/ \E t \in Sessions : TxApplyDiscount(t)
  \/ \E t \in Sessions : TxRecalculateTotal(t)
  \/ \E t \in Sessions : TxCreateVersionSnapshot(t)
  \/ \E t \in Sessions : TxCommit(t)

ConcSpec == ConcInit /\ [][ConcNext]_vars

\* --------------------------------------------------- generate_quote_no alone
MaxRetries == 3

\* the largest value the Redis counter of the day has before the call
MaxSeq == 3

Today == "20261106"
Yesterday == "20261105"

\* f"QT{today}{seq:04d}"
FormatQuoteNo(today, seq) == <<"QT", today, seq>>

NoQuoteNo == <<>>

\* quote numbers that quote_sheets may hold when the call starts
KnownQuoteNos ==
  {FormatQuoteNo(Today, seq) : seq \in 1..(MaxSeq + 1)}
    \cup {FormatQuoteNo(Yesterday, 1)}

GenInit ==
  /\ quotes = <<>>
  /\ items = {}
  /\ versions = {}
  /\ nextItemId = 1
  /\ last = [op |-> "init", quote_id |-> 0, ok |-> TRUE, error |-> None]
  /\ pricing = NoPricing
  /\ sessions = NoSessions
  /\ rowlock = 0
  /\ requests = NoRequests
  /\ mutation = NoMutation
  /\ competitor = NoCompetitor
  /\ \E existing \in SUBSET KnownQuoteNos, counter \in 0..MaxSeq :
       gen = [pc |-> "loop", attempt |-> 0, today |-> Today,
              counter |-> counter, existing |-> existing, result |-> NoQuoteNo]

\* a mutant of AfterCollision: the number of the last attempt is returned
AfterCollisionReturnsLast(g, quote_no) ==
  IF g.attempt + 1 = MaxRetries
    THEN [g EXCEPT !.attempt = @ + 1, !.pc = "returned", !.result = quote_no]
    ELSE [g EXCEPT !.attempt = @ + 1]

\* the number exists: warning, next attempt; after the last attempt the loop
\* ends and the function raises
AfterCollision(g, quote_no) ==
  IF g.attempt + 1 = MaxRetries
    THEN [g EXCEPT !.attempt = @ + 1, !.pc = "failed"]
    ELSE [g EXCEPT !.attempt = @ + 1]

\* except-branch: the error is re-raised on the last attempt only
AfterError(g) ==
  IF g.attempt = MaxRetries - 1
    THEN [g EXCEPT !.attempt = @ + 1, !.pc = "failed"]
    ELSE [g EXCEPT !.attempt = @ + 1]

\* one attempt in which redis.incr, redis.expire and the query succeed
GenAttempt ==
  LET seq == gen.counter + 1
      quote_no == FormatQuoteNo(gen.today, seq)
      g == [gen EXCEPT !.counter = seq]
  IN /\ gen.pc = "loop"
     /\ gen' = IF quote_no \notin gen.existing
                 THEN [g EXCEPT !.attempt = @ + 1, !.pc = "returned",
                                !.result = quote_no]
                 ELSE AfterCollision(g, quote_no)
     /\ UNCHANGED <<quotes, items, versions, nextItemId, last, pricing,
                    sessions, rowlock, competitor, mutation, requests>>

\* one attempt in which redis.incr fails, or a later call fails after the
\* counter was incremented
GenAttemptError ==
  /\ gen.pc = "loop"
  /\ \E incremented \in BOOLEAN :
       gen' = AfterError([gen EXCEPT !.counter = IF incremented THEN @ + 1 ELSE @])
  /\ UNCHANGED <<quotes, items, versions, nextItemId, last, pricing,
                 sessions, rowlock, competitor, mutation, requests>>

GenNext ==
  \/ GenAttempt
  \/ GenAttemptError

\* every awaited call returns or raises
GenSpec == GenInit /\ [][GenNext]_vars /\ WF_vars(GenNext)

\* ------------------------------------------------------- CompetitorService
\* the largest modification time of the data file
MaxMtime == 2

\* the largest number of executions of load_data
MaxLoads == 3

\* record lists a data file may hold
RecordLists == {<<>>, <<"qwen-max">>, <<"qwen-max", "qwen-plus">>}

\* the data file as load_data finds it: missing; open() raises; the text is
\* no JSON; the JSON value has no len(); getmtime raises after the read; or
\* a list of records
DataFiles ==
  {[kind |-> "missing", content |-> <<>>, mtime |-> 0]}
    \cup {[kind |-> k, content |-> <<>>, mtime |-> m] :
             k \in {"unreadable", "invalid_json", "scalar_json"}, m \in 1..MaxMtime}
    \cup {[kind |-> k, content |-> c, mtime |-> m] :
             k \in {"records", "stat_fails"}, c \in RecordLists, m \in 1..MaxMtime}

\* a mutant of load_data: a failed load leaves the loaded mark as it was
load_data_unmarked_on_failure(c) ==
  LET f == c.file
      c0 == [c EXCEPT !.loads = @ + 1]
  IN IF f.kind = "records"
       THEN [c |-> [c0 EXCEPT !.data = f.content, !.last_modified = f.mtime,
                              !.data_loaded = TRUE],
             ret |-> TRUE]
     ELSE IF f.kind = "scalar_json"
       THEN [c |-> [c0 EXCEPT !.data = <<>>, !.last_modified = f.mtime],
             ret |-> FALSE]
     ELSE [c |-> [c0 EXCEPT !.data = <<>>], ret |-> FALSE]

\* load_data; loads counts its executions
load_data(c) ==
  LET f == c.file
      c0 == [c EXCEPT !.loads = @ + 1]
  IN IF f.kind = "missing"
       THEN [c |-> [c0 EXCEPT !.data = <<>>, !.data_loaded = TRUE], ret |-> FALSE]
     ELSE IF f.kind \in {"unreadable", "invalid_json"}
       \* open() or json.load raises before _data is assigned
       THEN [c |-> [c0 EXCEPT !.data = <<>>, !.data_loaded = TRUE], ret |-> FALSE]
     ELSE IF f.kind = "stat_fails"
       \* _data is assigned, getmtime raises
       THEN [c |-> [c0 EXCEPT !.data = <<>>, !.data_loaded = TRUE], ret |-> FALSE]
     ELSE IF f.kind = "scalar_json"
       \* _data and _last_modified are assigned, len(self._data) raises
       THEN [c |-> [c0 EXCEPT !.data = <<>>, !.last_modified = f.mtime,
                              !.data_loaded = TRUE],
             ret |-> FALSE]
     ELSE [c |-> [c0 EXCEPT !.data = f.content, !.last_modified = f.mtime,
                            !.data_loaded = TRUE],
           ret |-> TRUE]

ensure_loaded(c) == IF ~c.data_loaded THEN load_data(c).c ELSE c

reload_data(c) == load_data([c EXCEPT !.data_loaded = FALSE])

CompInit ==
  /\ quotes = <<>>
  /\ items = {}
  /\ versions = {}
  /\ nextItemId = 1
  /\ last = [op |-> "init", quote_id |-> 0, ok |-> TRUE, error |-> None]
  /\ pricing = NoPricing
  /\ sessions = NoSessions
  /\ rowlock = 0
  /\ requests = NoRequests
  /\ mutation = NoMutation
  /\ gen = NoGeneration
  /\ \E f \in DataFiles :
       competitor = [data |-> <<>>, data_loaded |-> FALSE, last_modified |-> NoInt,
                     file |-> f, loads |-> 0, op |-> "init", ret |-> FALSE]

CompFrame ==
  UNCHANGED <<quotes, items, versions, nextItemId, last, pricing, sessions,
              rowlock, gen, mutation, requests>>

LoadData ==
  /\ competitor.loads < MaxLoads
  /\ LET out == load_data(competitor)
     IN competitor' = [out.c EXCEPT !.op = "load_data", !.ret = out.ret]
  /\ CompFrame

EnsureLoaded ==
  /\ competitor.loads < MaxLoads
  /\ competitor' = [ensure_loaded(competitor) EXCEPT !.op = "ensure_loaded",
                                                      !.ret = FALSE]
  /\ CompFrame

ReloadData ==
  /\ competitor.loads < MaxLoads
  /\ LET out == reload_data(competitor)
     IN competitor' = [out.c EXCEPT !.op = "reload_data", !.ret = out.ret]
  /\ CompFrame

\* the data file is written, replaced or removed between calls
WriteDataFile ==
  /\ \E f \in DataFiles :
       /\ f # competitor.file
       /\ competitor' = [competitor EXCEPT !.file = f, !.op = "write_file",
                                           !.ret = FALSE]
  /\ CompFrame

CompNext ==
  \/ LoadData
  \/ EnsureLoaded
  \/ ReloadData
  \/ WriteDataFile

CompSpec == CompInit /\ [][CompNext]_vars

\* ------------------------------------ add_item and update_item, by statement
EmptyDB == [quotes |-> <<>>, items |-> {}, versions |-> {}, nextItemId |-> 1]

\* requests the quote's first item was added with
StepFirstRequests == {r \in ItemRequests : r.product_code \in {"qwen", "ecs"}
                                           /\ r.region = HomeRegion
                                           /\ r.input_tokens # 0}

\* databases the call starts from: one quote with one item, at rate 1.0 or
\* 0.5, in each status
StepBases ==
  LET created == create_quote(EmptyDB, FirstCustomer).s
      Filled == {add_item(created, 1, r).s : r \in StepFirstRequests}
      Rated == Filled \cup {apply_global_discount(s, 1, 5000, None).s : s \in Filled}
  IN Rated
       \cup {update_quote(s, 1, [customer_name |-> Unset, status |-> st]).s :
               s \in Rated, st \in {Confirmed, Cancelled}}
       \cup {expire_quote(s, 1) : s \in Rated}
       \cup {delete_quote(s, 1).s : s \in Rated}

EmptyPatch ==
  [quantity |-> UnsetInt, input_tokens |-> UnsetInt, output_tokens |-> UnsetInt,
   inference_mode |-> Unset, discount_rate |-> UnsetInt]

NoPriceResult == [original_price |-> 0, final_price |-> 0]

StepInit ==
  /\ quotes = <<>>
  /\ items = {}
  /\ versions = {}
  /\ nextItemId = 1
  /\ last = [op |-> "init", quote_id |-> 0, ok |-> TRUE, error |-> None]
  /\ pricing = NoPricing
  /\ sessions = NoSessions
  /\ rowlock = 0
  /\ requests = NoRequests
  /\ gen = NoGeneration
  /\ competitor = NoCompetitor
  /\ \E s \in StepBases :
       \/ \E r \in ItemRequests :
            mutation = [op |-> "add_item", pc |-> "start", q |-> 1, item_id |-> 0,
                        request |-> r, patch |-> EmptyPatch, before |-> s, s |-> s,
                        price_result |-> NoPriceResult, trace |-> <<>>]
       \/ \E i \in ItemIds, d \in ItemPatches, r \in StepFirstRequests :
            mutation = [op |-> "update_item", pc |-> "start", q |-> 1, item_id |-> i,
                        request |-> r, patch |-> d, before |-> s, s |-> s,
                        price_result |-> NoPriceResult, trace |-> <<>>]

StepFrame ==
  UNCHANGED <<quotes, items, versions, nextItemId, last, pricing, sessions,
              rowlock, gen, competitor, requests>>

\* raise ...; except: await db.rollback()
Raise(m) == [m EXCEPT !.pc = "failed", !.s = m.before,
                      !.trace = Append(@, "rollback")]

\* if quote.status != "draft": raise
StepCheckStatus ==
  /\ mutation.pc = "start"
  /\ LET m == [mutation EXCEPT !.trace = Append(@, "status_check")]
     IN mutation' = IF m.s.quotes[m.q].status # Draft
                      THEN Raise(m)
                      ELSE [m EXCEPT !.pc = "checked"]
  /\ StepFrame

\* add_item: the product and its price are looked up
StepLookupCatalog ==
  /\ mutation.pc = "checked"
  /\ mutation.op = "add_item"
  /\ mutation' = IF /\ HasProduct(mutation.request.product_code)
                     /\ HasPrice(mutation.request.product_code, mutation.request.region)
                    THEN [mutation EXCEPT !.pc = "lookup"]
                    ELSE Raise(mutation)
  /\ StepFrame

\* update_item: the item is looked up
StepFindItem ==
  /\ mutation.pc = "checked"
  /\ mutation.op = "update_item"
  /\ mutation' = IF FindItem(mutation.s, mutation.q, mutation.item_id) = {}
                    THEN Raise(mutation)
                    ELSE [mutation EXCEPT !.pc = "found"]
  /\ StepFrame

\* update_item: for key, value in update_data.items(): setattr(item, key, value)
StepSetAttrs ==
  /\ mutation.pc = "found"
  /\ LET m == mutation
         item == CHOOSE i \in FindItem(m.s, m.q, m.item_id) : TRUE
         item1 == ApplyItemPatch(item, m.patch)
     IN mutation' = [m EXCEPT !.s.items = (@ \ {item}) \cup {item1},
                              !.trace = Append(@, "write_item"),
                              !.pc = IF TouchesPriceFields(m.patch) THEN "lookup"
                                                                   ELSE "recalc"]
  /\ StepFrame

\* _calculate_item_price is called: by add_item on the request, by update_item
\* on the patched item when the catalog has its price
StepPrice ==
  /\ mutation.pc = "lookup"
  /\ LET m == mutation
     IN IF m.op = "add_item"
          THEN mutation' =
                 [m EXCEPT !.price_result =
                             CalculateItemPrice(
                               FindProduct(m.request.product_code),
                               FindPrice(m.request.product_code, m.request.region),
                               m.request, m.s.quotes[m.q].global_discount_rate),
                           !.trace = Append(@, "price"),
                           !.pc = "priced"]
          ELSE LET item1 == CHOOSE i \in FindItem(m.s, m.q, m.item_id) : TRUE
               IN mutation' =
                    IF ~(HasPrice(item1.product_code, item1.region)
                           /\ HasProduct(item1.product_code))
                      THEN [m EXCEPT !.pc = "recalc"]
                    ELSE IF ~ValidateInferenceMode(item1.inference_mode)
                      THEN Raise(m)
                    ELSE [m EXCEPT !.price_result =
                                     CalculateItemPrice(
                                       FindProduct(item1.product_code),
                                       FindPrice(item1.product_code, item1.region),
                                       item1, m.s.quotes[m.q].global_discount_rate),
                                   !.trace = Append(@, "price"),
                                   !.pc = "priced"]
  /\ StepFrame

\* add_item: item = QuoteItem(...); db.add(item); await db.flush()
StepInsertItem ==
  /\ mutation.pc = "priced"
  /\ mutation.op = "add_item"
  /\ LET m == mutation
         item == NewItem(m.s.nextItemId, m.q, m.request,
                         FindProduct(m.request.product_code), m.price_result,
                         MaxSortOrder(m.s.items, m.q) + 1)
     IN mutation' = [m EXCEPT !.s.items = @ \cup {item},
                              !.s.nextItemId = @ + 1,
                              !.trace = Append(@, "write_item"),
                              !.pc = "recalc"]
  /\ StepFrame

\* update_item: item.original_price = ...; item.final_price = ...
StepWritePrices ==
  /\ mutation.pc = "priced"
  /\ mutation.op = "update_item"
  /\ LET m == mutation
         item1 == CHOOSE i \in FindItem(m.s, m.q, m.item_id) : TRUE
         item2 == [item1 EXCEPT !.original_price = m.price_result.original_price,
                                !.final_price = m.price_result.final_price]
     IN mutation' = [m EXCEPT !.s.items = (@ \ {item1}) \cup {item2},
                              !.trace = Append(@, "write_item"),
                              !.pc = "recalc"]
  /\ StepFrame

StepRecalculateTotal ==
  /\ mutation.pc = "recalc"
  /\ mutation' = [mutation EXCEPT !.s = recalculate_total(@, mutation.q),
                                  !.trace = Append(@, "recalculate_total"),
                                  !.pc = "snapshot"]
  /\ StepFrame

StepCreateVersionSnapshot ==
  /\ mutation.pc = "snapshot"
  /\ mutation' = [mutation EXCEPT
                    !.s = create_version_snapshot(@, mutation.q, mutation.op),
                    !.trace = Append(@, "snapshot"),
                    !.pc = "commit"]
  /\ StepFrame

StepCommit ==
  /\ mutation.pc = "commit"
  /\ mutation' = [mutation EXCEPT !.trace = Append(@, "commit"),
                                  !.pc = "committed"]
  /\ StepFrame

StepNext ==
  \/ StepCheckStatus
  \/ StepLookupCatalog
  \/ StepFindItem
  \/ StepSetAttrs
  \/ StepPrice
  \/ StepInsertItem
  \/ StepWritePrices
  \/ StepRecalculateTotal
  \/ StepCreateVersionSnapshot
  \/ StepCommit

StepSpec == StepInit /\ [][StepNext]_vars

\* the statements, taken together, are the call: what they leave is what
\* add_item and update_item leave
StepsAreTheCall ==
  mutation.pc \in {"committed", "failed"} =>
    LET m == mutation
        out == IF m.op = "add_item"
                 THEN add_item(m.before, m.q, m.request)
                 ELSE update_item(m.before, m.q, m.item_id, m.patch)
    IN /\ m.s = out.s
       /\ (m.pc = "committed") = out.ok

\* ------------------------------------ RequestContext, RequestLoggingMiddleware
MaxRequests == 3

\* the largest number of get_request_id calls of one request
MaxReads == 2

Requests == 1..MaxRequests

\* get_request_id's default "-", written as a number that is no request's id
DefaultRequestId == 0

\* str(uuid.uuid4())[:8]: the ids of different requests are taken as different
NewRequestId(r) == r

\* _context = {}: one dict of the class, for all requests
EmptyContext == <<>>

\* RequestContext.set
ContextSet(ctx, key, value) ==
  [k \in DOMAIN ctx \cup {key} |-> IF k = key THEN value ELSE ctx[k]]

\* RequestContext.get
ContextGet(ctx, key, default) ==
  IF key \in DOMAIN ctx THEN ctx[key] ELSE default

\* RequestContext.clear
ContextClear(ctx) == EmptyContext

\* RequestContext.get_request_id
get_request_id(ctx) == ContextGet(ctx, "request_id", DefaultRequestId)

ReqInit ==
  /\ quotes = <<>>
  /\ items = {}
  /\ versions = {}
  /\ nextItemId = 1
  /\ last = [op |-> "init", quote_id |-> 0, ok |-> TRUE, error |-> None]
  /\ pricing = NoPricing
  /\ sessions = NoSessions
  /\ rowlock = 0
  /\ gen = NoGeneration
  /\ competitor = NoCompetitor
  /\ mutation = NoMutation
  /\ requests = [context |-> EmptyContext,
                 pc |-> [r \in Requests |-> "idle"],
                 request_id |-> [r \in Requests |-> DefaultRequestId],
                 reads |-> [r \in Requests |-> 0],
                 seen |-> [r \in Requests |-> {}]]

ReqFrame ==
  UNCHANGED <<quotes, items, versions, nextItemId, last, pricing, sessions,
              rowlock, gen, competitor, mutation>>

\* dispatch up to `await call_next(request)`
ReqDispatch(r) ==
  /\ requests.pc[r] = "idle"
  /\ requests' = [requests EXCEPT
                    !.request_id[r] = NewRequestId(r),
                    !.context = ContextSet(@, "request_id", NewRequestId(r)),
                    !.pc[r] = "in_flight"]
  /\ ReqFrame

\* code running for the request inside call_next asks for the request id
ReqGetRequestId(r) ==
  /\ requests.pc[r] = "in_flight"
  /\ requests.reads[r] < MaxReads
  /\ requests' = [requests EXCEPT
                    !.reads[r] = @ + 1,
                    !.seen[r] = @ \cup {get_request_id(requests.context)}]
  /\ ReqFrame

\* call_next returns or raises: finally: RequestContext.clear()
ReqFinish(r) ==
  /\ requests.pc[r] = "in_flight"
  /\ requests' = [requests EXCEPT !.context = ContextClear(@),
                                  !.pc[r] = "done"]
  /\ ReqFrame

ReqNext ==
  \E r \in Requests :
    \/ ReqDispatch(r)
    \/ ReqGetRequestId(r)
    \/ ReqFinish(r)

ReqSpec == ReqInit /\ [][ReqNext]_vars

TypeOK ==
  /\ WithinBounds(DB)
  /\ \A q \in 1..Len(quotes) : quotes[q].status \in Statuses
  /\ \A i \in items :
       /\ \A d \in DiscountInputs :
            ValidateRate(d.discount_rate)
              => (i.original_price * d.discount_rate) % RateDen = 0
       /\ i.final_price * RateDen
            = i.original_price * quotes[i.quote_id].global_discount_rate
  /\ \A r \in ItemRequests :
       HasPrice(r.product_code, r.region) /\ Truthy(r.input_tokens)
                                          /\ Truthy(r.output_tokens)
         => LET pv == FindPrice(r.product_code, r.region).pricing_variables
                tokens_cost == pv.input_price * r.input_tokens
                                 + pv.output_price * r.output_tokens
            IN /\ tokens_cost % TokenUnit = 0
               /\ ((tokens_cost \div TokenUnit) * DefaultThinkingNum) % ThinkingDen = 0

\* ---------------------------------------------------------------- claims
ExistingQuotes == 1..Len(quotes)

ItemCallOutcomes(s, q) ==
  {add_item(s, q, r) : r \in ItemRequests}
    \cup {update_item(s, q, i, d) : i \in ItemIds, d \in ItemPatches}
    \cup {delete_item(s, q, i) : i \in ItemIds}
    \cup {[s |-> o.s, ok |-> o.ok, error |-> o.error] :
            o \in {add_items_batch(s, q, b) : b \in BatchInputs}}
    \cup {apply_global_discount(s, q, d.discount_rate, d.remark) : d \in DiscountInputs}

\* C2: on a quote that is not a draft, add_item, update_item, delete_item,
\* add_items_batch and apply_global_discount fail with an error and leave the
\* quote, its items, its totals and its ledger as they were.
C2_NonDraftRejected ==
  \A q \in ExistingQuotes :
    quotes[q].status # Draft =>
      \A out \in ItemCallOutcomes(DB, q) : ~out.ok /\ out.s = DB

\* delete_item has just been refused on a quote that is confirmed, cancelled,
\* expired or deleted and still holds the item
C2_Witness ==
  /\ last.op = "delete_item"
  /\ ~last.ok
  /\ last.error = "not_draft"
  /\ ItemsOf(items, last.quote_id) # {}

\* C3: the version numbers in a quote's ledger are exactly 1..n, without gap
\* or duplicate; creation writes version 1.
C3_VersionsDense ==
  \A q \in ExistingQuotes :
    LET vs == VersionsOf(versions, q)
    IN /\ vs # {}
       /\ {v.version_number : v \in vs} = 1..Cardinality(vs)

\* a clone holds its version 1 while the source's ledger has reached 2
C3_Witness ==
  /\ Len(quotes) = 2
  /\ last.op = "clone_quote"
  /\ last.ok
  /\ Cardinality(VersionsOf(versions, 1)) = 2
  /\ \E v \in VersionsOf(versions, 2) : v.version_number = 1 /\ v.change_type = "clone"

\* the quote rows created or changed by a step, their items included
ChangedQuotes ==
  {q \in 1..Len(quotes') :
     \/ q > Len(quotes)
     \/ quotes'[q] # quotes[q]
     \/ ItemsOf(items', q) # ItemsOf(items, q)}

\* C4: every committed service operation that changes a quote's persisted
\* state (the soft delete included) appends exactly one version entry for
\* that quote in the same commit.
C4_EveryChangeVersioned ==
  [][ last'.op # "expire" =>
        \A q \in ChangedQuotes :
          Cardinality(VersionsOf(versions', q)) = Cardinality(VersionsOf(versions, q)) + 1
    ]_vars

PricedContent(s, q) ==
  [items |-> s.items,
   total_amount |-> s.quotes[q].total_amount,
   total_original_amount |-> s.quotes[q].total_original_amount]

\* C6: applying the same discount rate twice in a row to a draft gives every
\* item the final_price, and the quote the totals, of applying it once.
C6_DiscountIdempotent ==
  \A q \in ExistingQuotes : \A d \in DiscountInputs :
    LET once == apply_global_discount(DB, q, d.discount_rate, d.remark)
        twice == apply_global_discount(once.s, q, d.discount_rate, d.remark)
    IN once.ok => twice.ok /\ PricedContent(twice.s, q) = PricedContent(once.s, q)

\* a rate below 1 has just been applied to a draft that holds a priced item
C6_Witness ==
  /\ last.op = "apply_global_discount"
  /\ last.ok
  /\ quotes[last.quote_id].status = Draft
  /\ quotes[last.quote_id].global_discount_rate < FullRate
  /\ \E i \in ItemsOf(items, last.quote_id) : i.final_price > 0

\* C7: apply_global_discount on a draft changes only global_discount_rate, the
\* remark, each item's final_price, total_amount and the ledger; original
\* prices, usage fields, sort orders, the set of items, total_original_amount
\* and the status stay.
C7_DiscountFrame ==
  \A q \in ExistingQuotes : \A d \in DiscountInputs :
    LET out == apply_global_discount(DB, q, d.discount_rate, d.remark)
    IN out.ok =>
         /\ {i.item_id : i \in out.s.items} = {i.item_id : i \in items}
         /\ \A i \in items : \E j \in out.s.items :
              j = [i EXCEPT !.final_price = j.final_price]
         /\ out.s.quotes[q] =
              [quotes[q] EXCEPT
                 !.global_discount_rate = out.s.quotes[q].global_discount_rate,
                 !.global_discount_remark = out.s.quotes[q].global_discount_remark,
                 !.total_amount = out.s.quotes[q].total_amount]
         /\ \A p \in ExistingQuotes \ {q} : out.s.quotes[p] = quotes[p]
         /\ Len(out.s.quotes) = Len(quotes)
         /\ out.s.nextItemId = nextItemId
         /\ versions \subseteq out.s.versions

\* a discount with a remark has just been applied to a draft whose items keep
\* their original prices
C7_Witness ==
  /\ last.op = "apply_global_discount"
  /\ last.ok
  /\ quotes[last.quote_id].global_discount_remark = "promo"
  /\ quotes[last.quote_id].total_original_amount > quotes[last.quote_id].total_amount
  /\ ItemsOf(items, last.quote_id) # {}

\* C8: update_quote on a draft with a requested status succeeds, and sets the
\* status, exactly when the target is confirmed or cancelled; any other target
\* is rejected and nothing changes.
C8_DraftStatusTargets ==
  \A q \in ExistingQuotes : \A d \in QuotePatches :
    (quotes[q].status = Draft /\ d.status # Unset) =>
      LET out == update_quote(DB, q, d)
      IN /\ out.ok <=> d.status \in {Confirmed, Cancelled}
         /\ out.ok => out.s.quotes[q].status = d.status
         /\ ~out.ok => out.s = DB

\* update_quote has just confirmed a draft
C8_Witness ==
  /\ last.op = "update_quote"
  /\ last.ok
  /\ quotes[last.quote_id].status = Confirmed

\* C9: delete_quote sets the status deleted whatever the status was, and no
\* later operation gives a deleted quote another status.
C9_DeletedTerminal ==
  [][ \A q \in ExistingQuotes :
        /\ delete_quote(DB, q).ok
        /\ delete_quote(DB, q).s.quotes[q].status = Deleted
        /\ quotes[q].status = Deleted => quotes'[q].status = Deleted
    ]_vars

\* a quote that had been confirmed has just been deleted
C9_Witness ==
  /\ last.op = "delete_quote"
  /\ last.ok
  /\ quotes[last.quote_id].status = Deleted
  /\ \E v \in VersionsOf(versions, last.quote_id) :
       v.snapshot_data.quote.status = Confirmed

\* C10: update_quote on a quote that is not a draft is rejected for every
\* patch (metadata only, status only, or both) and changes nothing.
C10_NonDraftUpdateRejected ==
  \A q \in ExistingQuotes : \A d \in QuotePatches :
    quotes[q].status # Draft =>
      LET out == update_quote(DB, q, d)
      IN ~out.ok /\ out.s = DB

\* update_quote has just been refused on a confirmed quote
C10_Witness ==
  /\ last.op = "update_quote"
  /\ ~last.ok
  /\ last.quote_id \in ExistingQuotes
  /\ quotes[last.quote_id].status = Confirmed

\* the items a call has inserted into quote q: rows with a fresh item_id
InsertedItems(before, after, q) ==
  {j \in ItemsOf(after.items, q) : j.item_id >= before.nextItemId}

\* the additions of the model on quote q: add_item and add_items_batch
AdditionOutcomes(s, q) ==
  {add_item(s, q, r) : r \in ItemRequests}
    \cup {[s |-> o.s, ok |-> o.ok, error |-> o.error] :
            o \in {add_items_batch(s, q, b) : b \in BatchInputs}}

\* C11: a sort_order once assigned to an item of a quote is not assigned to a
\* later item of that quote, also when an item (the holder of the maximum
\* included) is deleted before the next addition.
C11_SortOrderNeverReused ==
  \A q \in ExistingQuotes : \A i \in ItemsOf(items, q) :
    LET deleted == delete_item(DB, q, i.item_id)
    IN deleted.ok =>
         \A added \in AdditionOutcomes(deleted.s, q) :
           added.ok =>
             \A j \in InsertedItems(deleted.s, added.s, q) :
               j.sort_order \notin {k.sort_order : k \in ItemsOf(items, q)}

\* C12: delete_item on a draft removes exactly the named item; every other
\* item row stays as it was (sort_order and prices included), and besides the
\* removed row only the quote's two totals and its ledger change.
C12_DeleteItemFrame ==
  \A q \in ExistingQuotes : \A id \in ItemIds :
    LET out == delete_item(DB, q, id)
    IN out.ok =>
         /\ out.s.items = {i \in items : ~(i.item_id = id /\ i.quote_id = q)}
         /\ Cardinality(out.s.items) = Cardinality(items) - 1
         /\ out.s.quotes[q] =
              [quotes[q] EXCEPT
                 !.total_amount = SumFinal(ItemsOf(out.s.items, q)),
                 !.total_original_amount = SumOriginal(ItemsOf(out.s.items, q))]
         /\ \A p \in ExistingQuotes \ {q} : out.s.quotes[p] = quotes[p]
         /\ Len(out.s.quotes) = Len(quotes)
         /\ out.s.nextItemId = nextItemId
         /\ versions \subseteq out.s.versions
         /\ Cardinality(out.s.versions) = Cardinality(versions) + 1

\* the first of two items has just been deleted: the second keeps sort_order 2
C12_Witness ==
  /\ last.op = "delete_item"
  /\ last.ok
  /\ Cardinality(ItemsOf(items, last.quote_id)) = 1
  /\ \E i \in ItemsOf(items, last.quote_id) : i.sort_order = 2 /\ i.final_price > 0

\* the entries of a batch that name a product with a price in their region
PriceableEntries(items_data) ==
  {k \in 1..Len(items_data) :
     /\ HasProduct(items_data[k].product_code)
     /\ HasPrice(items_data[k].product_code, items_data[k].region)}

\* C13: add_items_batch on a draft returns a result in which success_count +
\* failed_count is the number of entries; the quote gains exactly
\* success_count items, one for every entry whose product and price exist,
\* whatever the other entries are, and keeps the items it had.
C13_BatchBestEffort ==
  \A q \in ExistingQuotes : \A b \in BatchInputs :
    quotes[q].status = Draft =>
      LET out == add_items_batch(DB, q, b)
          inserted == InsertedItems(DB, out.s, q)
      IN /\ out.ok
         /\ out.success_count + out.failed_count = Len(b)
         /\ out.success_count = Cardinality(PriceableEntries(b))
         /\ Cardinality(inserted) = out.success_count
         /\ ItemsOf(out.s.items, q) = ItemsOf(items, q) \cup inserted
         /\ \A k \in PriceableEntries(b) : \E j \in inserted :
              /\ j.product_code = b[k].product_code
              /\ j.region = b[k].region
              /\ j.quantity = b[k].quantity

\* a batch of three entries, the second without a price, has just added the
\* first and the third to an empty quote
C13_Witness ==
  /\ last.op = "add_items_batch"
  /\ last.ok
  /\ nextItemId = 3
  /\ {i.product_code : i \in ItemsOf(items, last.quote_id)} = {"qwen", "ecs"}
  /\ \A i \in ItemsOf(items, last.quote_id) : i.region = HomeRegion

\* C14: an add_items_batch call that returns a result appends exactly one
\* ledger entry to the quote, also when no entry or several entries succeed,
\* and its snapshot lists exactly the items the quote holds after the batch.
C14_BatchOneSnapshot ==
  \A q \in ExistingQuotes : \A b \in BatchInputs :
    LET out == add_items_batch(DB, q, b)
        written == out.s.versions \ versions
    IN out.ok =>
         /\ versions \subseteq out.s.versions
         /\ Cardinality(written) = 1
         /\ \A v \in written :
              /\ v.quote_id = q
              /\ v.change_type = "add_item"
              /\ v.snapshot_data.items = SnapshotItems(ItemsOf(out.s.items, q))
              /\ BagCardinality(v.snapshot_data.items)
                   = Cardinality(ItemsOf(items, q)) + out.success_count
              /\ v.snapshot_data.quote.total_amount = out.s.quotes[q].total_amount

\* a batch has just written version 2 of a quote, listing the two items added
C14_Witness ==
  /\ last.op = "add_items_batch"
  /\ last.ok
  /\ \E v \in VersionsOf(versions, last.quote_id) :
       /\ v.version_number = 2
       /\ v.change_type = "add_item"
       /\ BagCardinality(v.snapshot_data.items) = 2
       /\ Cardinality(ItemsOf(items, last.quote_id)) = 2

\* the single-item operations and the discount, for every input of the model
SingleItemOutcomes(s, q) ==
  {add_item(s, q, r) : r \in ItemRequests}
    \cup {update_item(s, q, i, d) : i \in ItemIds, d \in ItemPatches}
    \cup {delete_item(s, q, i) : i \in ItemIds}
    \cup {apply_global_discount(s, q, d.discount_rate, d.remark) : d \in DiscountInputs}

\* C15: a failing add_item, update_item, delete_item or apply_global_discount
\* (quote, product, price or item missing, status not draft, or a refused
\* input) leaves items, totals, rate, status and ledger as before the call.
C15_FailureAtomic ==
  \A q \in QuoteIds : \A out \in SingleItemOutcomes(DB, q) :
    ~out.ok => out.s = DB

\* add_item has just failed for lack of a catalog price on a draft that holds
\* a priced item
C15_Witness ==
  /\ last.op = "add_item"
  /\ ~last.ok
  /\ last.error = "price_not_found"
  /\ quotes[last.quote_id].status = Draft
  /\ quotes[last.quote_id].total_amount > 0

\* C16: no step removes or modifies a ledger entry: every entry of
\* quote_versions, with its version_number, change_type and snapshot, is
\* still there after the step (the soft delete included).
C16_LedgerAppendOnly ==
  [][ /\ versions \subseteq versions'
      /\ \A q \in ExistingQuotes :
           VersionsOf(versions, q) \subseteq VersionsOf(delete_quote(DB, q).s.versions, q)
    ]_vars

\* a quote with two ledger entries has just been deleted and still has both
C16_Witness ==
  /\ last.op = "delete_quote"
  /\ last.ok
  /\ {v.version_number : v \in VersionsOf(versions, last.quote_id)} = {1, 2}

\* C17: the price _calculate_item_price returns is the reference formula: for
\* a standard product unit_price x quantity x duration_months; for an llm
\* product with positive token counts ((input_price x input_tokens +
\* output_price x output_tokens) / 1000) x m x quantity x duration_months with
\* m the thinking multiplier (1.5 unless the catalog gives one) in thinking
\* mode and 1 otherwise; final_price = original_price x rate.
C17_PriceFormula ==
  pricing.priced =>
    LET d == pricing.item_data
        pv == pricing.price.pricing_variables
        r == pricing.result
        m == IF d.inference_mode # "thinking" THEN ThinkingDen
             ELSE IF pv.thinking_multiplier = NoInt THEN DefaultThinkingNum
             ELSE pv.thinking_multiplier
    IN /\ ~IsLLMCategory(pricing.product.category) =>
            r.original_price = pricing.price.unit_price * d.quantity * d.duration_months
       /\ (IsLLMCategory(pricing.product.category)
              /\ d.input_tokens > 0 /\ d.output_tokens > 0) =>
            r.original_price * TokenUnit * ThinkingDen =
              (pv.input_price * d.input_tokens + pv.output_price * d.output_tokens)
                * m * d.quantity * d.duration_months
       /\ r.final_price * RateDen = r.original_price * pricing.global_discount_rate

\* a thinking-mode request for an llm product with a catalog multiplier of 2,
\* three units and two months, has been priced at a rate below 1
C17_Witness ==
  /\ pricing.priced
  /\ IsLLMCategory(pricing.product.category)
  /\ pricing.item_data.inference_mode = "thinking"
  /\ pricing.price.pricing_variables.thinking_multiplier = 20
  /\ pricing.item_data.input_tokens = 1000
  /\ pricing.item_data.output_tokens = 2000
  /\ pricing.item_data.quantity = 3
  /\ pricing.item_data.duration_months = 2
  /\ pricing.global_discount_rate = 5000
  /\ pricing.result.original_price = 120000
  /\ pricing.result.final_price = 60000

\* C18: for an llm product, a request with input_tokens = 0 and
\* output_tokens = 0 is priced at original_price = 0 and final_price = 0,
\* whatever unit_price, quantity and duration_months are.
C18_ZeroTokensPriceZero ==
  (/\ pricing.priced
   /\ IsLLMCategory(pricing.product.category)
   /\ pricing.item_data.input_tokens = 0
   /\ pricing.item_data.output_tokens = 0) =>
    /\ pricing.result.original_price = 0
    /\ pricing.result.final_price = 0

C20_ConcurrentTotals ==
  (\A t \in Sessions : sessions[t].pc = "committed") =>
    /\ quotes[ConcQuote].total_amount = SumFinal(ItemsOf(items, ConcQuote))
    /\ quotes[ConcQuote].total_original_amount
         = SumOriginal(ItemsOf(items, ConcQuote))

\* C21: the ledger entries that concurrent committed requests write for the
\* quote carry different version numbers: no two entries of the quote share
\* a version_number.
C21_ConcurrentVersionsUnique ==
  \A v, w \in VersionsOf(versions, ConcQuote) :
    v.version_number = w.version_number => v = w

\* C22: generate_quote_no ends after at most 3 attempts: while it runs fewer
\* than 3 attempts are over; a returned number has the form QT, date, sequence
\* and is the number of no existing quote; a failure is raised only when the
\* third attempt was unsuccessful; and the call does end.
C22_GenerateBounded ==
  /\ [](/\ gen.attempt <= MaxRetries
        /\ gen.pc = "loop" => gen.attempt < MaxRetries
        /\ gen.pc = "returned" =>
             /\ gen.result \notin gen.existing
             /\ gen.result = FormatQuoteNo(gen.today, gen.counter)
        /\ gen.pc = "failed" =>
             /\ gen.attempt = MaxRetries
             /\ gen.result = NoQuoteNo)
  /\ <>(gen.pc \in {"returned", "failed"})

\* the third attempt has returned a fresh number after a collision and an
\* error
C22_Witness ==
  /\ gen.pc = "returned"
  /\ gen.attempt = MaxRetries
  /\ gen.counter = 2
  /\ FormatQuoteNo(Today, 1) \in gen.existing
  /\ gen.result = FormatQuoteNo(Today, 2)

ItemContent(i) == [i EXCEPT !.item_id = 0, !.quote_id = 0, !.sort_order = 0]

\* C24: clone_quote of a quote in any status adds one quote: a draft with the
\* source's rate, one copy of each source item with the source's prices,
\* totals equal to the sums over the copies, and a ledger of exactly one
\* entry, version 1 with change_type clone; every other quote, item and
\* ledger entry, the source's included, is as before.
C24_CloneQuote ==
  \A q \in ExistingQuotes : \A n \in CloneNames :
    LET out == clone_quote(DB, q, n)
        new_id == Len(quotes) + 1
        Src == ItemsOf(items, q)
        New == ItemsOf(out.s.items, new_id)
    IN /\ out.ok
       /\ Len(out.s.quotes) = new_id
       /\ out.s.quotes[new_id].status = Draft
       /\ out.s.quotes[new_id].global_discount_rate = quotes[q].global_discount_rate
       /\ Cardinality(New) = Cardinality(Src)
       /\ \E f \in [Src -> New] :
            /\ \A c \in New : \E i \in Src : f[i] = c
            /\ \A i \in Src : ItemContent(f[i]) = ItemContent(i)
       /\ out.s.quotes[new_id].total_original_amount = SumOriginal(New)
       /\ out.s.quotes[new_id].total_amount = SumFinal(New)
       /\ \E v \in out.s.versions :
            /\ VersionsOf(out.s.versions, new_id) = {v}
            /\ v.version_number = 1
            /\ v.change_type = "clone"
       /\ \A p \in ExistingQuotes : out.s.quotes[p] = quotes[p]
       /\ out.s.items \ New = items
       /\ out.s.versions \ VersionsOf(out.s.versions, new_id) = versions

\* clone_quote has just copied a quote that is no draft and holds a priced
\* item: the copy is a draft with that price as its total
C24_Witness ==
  /\ last.op = "clone_quote"
  /\ last.ok
  /\ Len(quotes) = 2
  /\ quotes[last.quote_id].status # Draft
  /\ quotes[2].status = Draft
  /\ quotes[2].total_amount > 0
  /\ quotes[2].total_amount = quotes[last.quote_id].total_amount
  /\ Cardinality(ItemsOf(items, 2)) = 1

\* C25: every stored item has final_price = original_price x the item's own
\* discount_rate, an item added under a global rate below 1 and an item whose
\* discount_rate was patched through update_item included.
C25_ItemRateConsistent ==
  \A i \in items : i.final_price * RateDen = i.original_price * i.discount_rate

\* what a load from the data file puts in memory and returns
LoadedFrom(f) ==
  IF f.kind = "records" THEN [data |-> f.content, ret |-> TRUE]
                        ELSE [data |-> <<>>, ret |-> FALSE]

\* C26: load_data leaves the service marked loaded whatever the outcome; it
\* returns True with the file's records in memory when the file is a list of
\* records, and False with an empty list when the file is missing, is no
\* JSON or cannot be read; ensure_loaded executes load_data exactly when the
\* service is not marked loaded and otherwise changes nothing; reload_data
\* always executes load_data and leaves what the file holds now.
C26_CompetitorLoad ==
  competitor.op # "none" =>
    LET c == competitor
        f == c.file
        loaded == load_data(c)
        ensured == ensure_loaded(c)
        reloaded == reload_data(c)
    IN /\ loaded.c.data_loaded
       /\ f.kind = "records" => loaded.ret /\ loaded.c.data = f.content
       /\ f.kind \in {"missing", "invalid_json", "unreadable", "stat_fails"} =>
            ~loaded.ret /\ loaded.c.data = <<>>
       /\ ~loaded.ret => loaded.c.data = <<>>
       /\ c.data_loaded => ensured = c
       /\ ~c.data_loaded =>
            /\ ensured.loads = c.loads + 1
            /\ ensured.data_loaded
            /\ ensured.data = LoadedFrom(f).data
       /\ reloaded.c.loads = c.loads + 1
       /\ reloaded.c.data_loaded
       /\ reloaded.c.data = LoadedFrom(f).data
       /\ reloaded.ret = LoadedFrom(f).ret
       /\ c.op \in {"load_data", "reload_data"} => c.data_loaded

\* load_data has just failed on a file that is no JSON, after an earlier load
\* of two records: the service is marked loaded and its list is empty
C26_Witness ==
  /\ competitor.op = "load_data"
  /\ ~competitor.ret
  /\ competitor.file.kind = "invalid_json"
  /\ competitor.loads = 2
  /\ competitor.last_modified # NoInt
  /\ competitor.data_loaded
  /\ competitor.data = <<>>

\* positions of an event in the statements a call has executed
Positions(e) == {k \in 1..Len(mutation.trace) : mutation.trace[k] = e}

\* C27: within add_item and update_item the steps come in the order status
\* check, pricing, writes with total recomputation, snapshot, commit: every
\* write of an item field comes after the status check and after a price
\* computation, and the snapshot comes after the recomputation of the totals
\* and before the commit.
C27_StepOrder ==
  mutation.pc # "none" =>
    /\ \A w \in Positions("write_item") :
         /\ \E c \in Positions("status_check") : c < w
         /\ \E p \in Positions("price") : p < w
    /\ \A n \in Positions("snapshot") :
         /\ \E r \in Positions("recalculate_total") : r < n
         /\ \A c \in Positions("commit") : n < c
    /\ \A c \in Positions("commit") : Positions("snapshot") # {}

\* C28: leaving draft is final and freezes the priced content: no step takes
\* a quote that is not a draft back to draft, and no step changes such a
\* quote's set of items, any item's prices, its global_discount_rate, its
\* total_amount or its total_original_amount.
C28_NonDraftFrozen ==
  [][\A q \in ExistingQuotes :
       quotes[q].status # Draft =>
         /\ quotes'[q].status # Draft
         /\ ItemsOf(items', q) = ItemsOf(items, q)
         /\ quotes'[q].global_discount_rate = quotes[q].global_discount_rate
         /\ quotes'[q].total_amount = quotes[q].total_amount
         /\ quotes'[q].total_original_amount = quotes[q].total_original_amount]_vars

\* apply_global_discount has just been refused on a confirmed quote that
\* holds a priced item
C28_Witness ==
  /\ last.op = "apply_global_discount"
  /\ ~last.ok
  /\ last.error = "not_draft"
  /\ last.quote_id \in ExistingQuotes
  /\ quotes[last.quote_id].status = Confirmed
  /\ ItemsOf(items, last.quote_id) # {}
  /\ quotes[last.quote_id].total_amount > 0

\* the outcome of every call the model can submit against database s
CallOutcomes(s) ==
  {create_quote(s, n) : n \in CustomerNames}
    \cup UNION {ItemCallOutcomes(s, q) : q \in QuoteIds}
    \cup {update_quote(s, q, d) : q \in QuoteIds, d \in QuotePatches}
    \cup {delete_quote(s, q) : q \in QuoteIds}
    \cup {clone_quote(s, q, n) : q \in QuoteIds, n \in CloneNames}

\* the sum of final_price over the entries of a snapshot's item list
RECURSIVE BagSumFinal(_)
BagSumFinal(B) ==
  IF BagToSet(B) = {} THEN 0
  ELSE LET e == CHOOSE x \in BagToSet(B) : TRUE
       IN e.final_price * CopiesIn(e, B)
            + BagSumFinal([x \in BagToSet(B) \ {e} |-> B[x]])

\* C29: every ledger entry a call writes agrees with the database the call
\* commits: its item list is the quote's items after the call (one entry per
\* item, with the item's product, quantity and prices), its total_amount is
\* the sum of final_price over that list, and its status and
\* global_discount_rate are the quote's values after the call.
C29_SnapshotConsistent ==
  \A out \in CallOutcomes(DB) :
    out.ok =>
      \A v \in out.s.versions \ versions :
        LET its == ItemsOf(out.s.items, v.quote_id)
            quote == out.s.quotes[v.quote_id]
            snap == v.snapshot_data
        IN /\ snap.items = SnapshotItems(its)
           /\ BagCardinality(snap.items) = Cardinality(its)
           /\ snap.quote.total_amount = BagSumFinal(snap.items)
           /\ snap.quote.total_amount = quote.total_amount
           /\ snap.quote.status = quote.status
           /\ snap.quote.global_discount_rate = quote.global_discount_rate

\* delete_item has just removed one of two items of a draft: the newest entry
\* lists the remaining item alone and its price as the total
C29_Witness ==
  /\ last.op = "delete_item"
  /\ last.ok
  /\ \E v \in VersionsOf(versions, last.quote_id) :
       /\ v.change_type = "delete_item"
       /\ v.version_number = MaxVersionNumber(versions, last.quote_id)
       /\ BagCardinality(v.snapshot_data.items) = 1
       /\ Cardinality(ItemsOf(items, last.quote_id)) = 1
       /\ v.snapshot_data.quote.total_amount > 0
       /\ v.snapshot_data.quote.total_amount = quotes[last.quote_id].total_amount

\* C30: while a request is in RequestLoggingMiddleware, get_request_id gives
\* the id generated for that request, whatever other requests start or finish
\* meanwhile: every value a request has read is its own id, and a read now
\* would give its own id.
C30_RequestIdIsOwn ==
  requests # NoRequests =>
    \A r \in Requests :
      /\ requests.seen[r] \subseteq {requests.request_id[r]}
      /\ requests.pc[r] = "in_flight" =>
           get_request_id(requests.context) = requests.request_id[r]

====
